---------------------------- MODULE Spec2Model ----------------------------
(***************************************************************************)
(* Model of the news ETL pipeline: four site parsers (multi_parser.py) run *)
(* concurrently under asyncio.gather, and etl_pipe.main flattens their     *)
(* results and writes them with save_to_json.                              *)
(*                                                                         *)
(* Text is a sequence of one-character strings; a URL is a sequence of     *)
(* lexical tokens ("https", ":", "/", a host or path word).  None is the   *)
(* Python None.                                                            *)
(*                                                                         *)
(* Spec      : the whole run (tasks, gather, flattening, the output file). *)
(* SpecParse : one parser's parse() loop, item by item, over every         *)
(*             document of at most MaxItems items.                         *)
(***************************************************************************)
EXTENDS Integers, Sequences, FiniteSets, TLC

VARIABLES pc, requests, status, html, taskResult, errorLog, finished,
          mainPc, results, etlPc, news_data,
          ppc, parser, soup, articles, idx, articles_data, logged

orchVars == <<pc, requests, status, html, taskResult, errorLog, finished,
              mainPc, results, etlPc, news_data>>
parseVars == <<ppc, parser, soup, articles, idx, articles_data, logged>>
vars == <<pc, requests, status, html, taskResult, errorLog, finished,
          mainPc, results, etlPc, news_data,
          ppc, parser, soup, articles, idx, articles_data, logged>>

----------------------------------------------------------------------------
(* Bounds *)

\* longest document (number of item blocks) explored by SpecParse
MaxItems == 3

----------------------------------------------------------------------------
(* Registration: multi_parser.main builds the task list in this order *)

Adapters == <<"Kommersant", "RBC", "IXBT", "RIA">>

AdapterSet == {Adapters[i] : i \in 1..Len(Adapters)}

\* position of an adapter in the task list
Pos(a) == CHOOSE i \in 1..Len(Adapters) : Adapters[i] = a

None == <<"None">>

KommersantBase == <<"https", ":", "/", "/", "www.kommersant.ru">>

IXBTBase == <<"https", ":", "/", "/", "www.ixbt.com", "/">>

----------------------------------------------------------------------------
(* Text helpers *)

Whitespace == {" "}

RECURSIVE LStrip(_)
LStrip(s) == IF s # <<>> /\ Head(s) \in Whitespace THEN LStrip(Tail(s)) ELSE s

RECURSIVE RStrip(_)
RStrip(s) == IF s # <<>> /\ s[Len(s)] \in Whitespace
             THEN RStrip(SubSeq(s, 1, Len(s) - 1)) ELSE s

\* str.strip()
Strip(s) == RStrip(LStrip(s))

\* `element.text.strip() if element else None`
TextOrNone(elementText) == IF elementText # None THEN Strip(elementText) ELSE None

\* Python truthiness of an Optional[str]
Truthy(s) == s # None /\ s # <<>>

----------------------------------------------------------------------------
(* pydantic: Article(source, title, timestamp, url: HttpUrl) *)

Punct == {":", "/"}

\* a token of a host name or of a path segment (hrefs carry no whitespace)
IsWord(tok) == tok \notin Punct

\* index of the first token after the host (a maximal run of words from 5)
RECURSIVE HostEnd(_, _)
HostEnd(u, i) == IF i <= Len(u) /\ IsWord(u[i]) THEN HostEnd(u, i + 1) ELSE i

\* the rest of a URL after the authority: nothing, or a path
IsPathOrEnd(u, i) == i > Len(u) \/ u[i] = "/"

Rejected(u) == [ok |-> FALSE, url |-> u]

Accepted(u) == [ok |-> TRUE, url |-> u]

\* u without its i-th token
DropAt(u, i) == SubSeq(u, 1, i - 1) \o SubSeq(u, i + 1, Len(u))

(* What HttpUrl validation can make of a string: rejected, or accepted and  *)
(* stored as url.  scheme://host is required.  pydantic 1 validates with a  *)
(* regex and keeps the string; pydantic 2 parses the URL and keeps its      *)
(* normal form, so the two differ on                                        *)
(*   - a host with no path: kept as it is, or stored with the path "/";     *)
(*   - host: with no port digits: rejected by the regex, or accepted and    *)
(*     stored without the colon.                                            *)
HttpUrlVerdicts(u) ==
    IF Len(u) < 5 \/ u[1] \notin {"http", "https"}
       \/ <<u[2], u[3], u[4]>> # <<":", "/", "/">> \/ ~IsWord(u[5])
    THEN {Rejected(u)}
    ELSE LET e == HostEnd(u, 5)
         IN  IF e > Len(u) THEN {Accepted(u), Accepted(u \o <<"/">>)}
             ELSE IF u[e] = "/" THEN {Accepted(u)}
             ELSE IF u[e] = ":" /\ IsPathOrEnd(u, e + 1)
                  THEN {Rejected(u),
                        Accepted(IF e + 1 > Len(u) THEN DropAt(u, e) \o <<"/">>
                                 ELSE DropAt(u, e))}
             ELSE {Rejected(u)}

\* title: str and url: HttpUrl are required, timestamp: Optional[str]
ArticleVerdicts(title, timestamp, url) ==
    IF title = None \/ url = None THEN {Rejected(url)} ELSE HttpUrlVerdicts(url)

Article(source, title, timestamp, url) ==
    [source |-> source, title |-> title, timestamp |-> timestamp, url |-> url]

NoArticle == Article(None, None, None, None)

----------------------------------------------------------------------------
(* One pass of the body of the `for article in articles` loop.  An outcome  *)
(* says whether an Article was appended to articles_data and whether the    *)
(* except branch ran logger.error.                                          *)

Appended(a) == [appended |-> TRUE, logged |-> FALSE, article |-> a]

Raised == [appended |-> FALSE, logged |-> TRUE, article |-> NoArticle]

Skipped == [appended |-> FALSE, logged |-> FALSE, article |-> NoArticle]

\* (mutant) the Article is built without validating its fields
ConstructNoValidation(source, title, timestamp, url) ==
    {Appended(Article(source, title, timestamp, url))}

\* Article(...) then articles_data.append, or ValidationError to the except
Construct(source, title, timestamp, url) ==
    {IF v.ok THEN Appended(Article(source, title, timestamp, v.url)) ELSE Raised :
        v \in ArticleVerdicts(title, timestamp, url)}

KommersantItem(item) ==
    LET title == TextOrNone(item.title)
        timestamp == TextOrNone(item.timestamp)
        article_url == IF item.href # None THEN KommersantBase \o item.href ELSE None
    IN  Construct("Kommersant", title, timestamp, article_url)

\* (mutant) the RBC parser labels its Articles with another parser's source
RBCItemWrongSource(item) ==
    LET title == TextOrNone(item.title)
        timestamp == TextOrNone(item.timestamp)
        article_url == IF item.href # None THEN item.href ELSE None
    IN  IF Truthy(title) /\ Truthy(timestamp) /\ Truthy(article_url)
        THEN Construct("Kommersant", title, timestamp, article_url)
        ELSE {Skipped}

RBCItem(item) ==
    LET title == TextOrNone(item.title)
        timestamp == TextOrNone(item.timestamp)
        article_url == IF item.href # None THEN item.href ELSE None
    IN  IF Truthy(title) /\ Truthy(timestamp) /\ Truthy(article_url)
        THEN Construct("RBC", title, timestamp, article_url)
        ELSE {Skipped}

IXBTItem(item) ==
    LET title == TextOrNone(item.title)
        timestamp == TextOrNone(item.timestamp)
        article_url == IF item.href # None THEN IXBTBase \o item.href ELSE None
    IN  IF Truthy(title) /\ Truthy(timestamp) /\ Truthy(article_url)
        THEN Construct("IXBT", title, timestamp, article_url)
        ELSE {Skipped}

(* RIA reads the title and the href from the same <a href> element, so the  *)
(* element is found only when the item has both a link and a title text.    *)
RIAItem(item) ==
    LET title_element == IF item.href # None /\ item.title # None
                         THEN item.title ELSE None
        article_url == IF title_element # None THEN item.href ELSE None
        title == TextOrNone(title_element)
        timestamp == TextOrNone(item.timestamp)
    IN  IF Truthy(title) /\ Truthy(timestamp) /\ Truthy(article_url)
        THEN Construct("RIA", title, timestamp, article_url)
        ELSE {Skipped}

ItemOutcomes(a, item) ==
    CASE a = "Kommersant" -> KommersantItem(item)
      [] a = "RBC" -> RBCItem(item)
      [] a = "IXBT" -> IXBTItem(item)
      [] a = "RIA" -> RIAItem(item)

\* (mutant) the new Article is put in front of the list
AfterItemPrepend(acc, o) ==
    [data |-> IF o.appended THEN <<o.article>> \o acc.data ELSE acc.data,
     errors |-> acc.errors + (IF o.logged THEN 1 ELSE 0)]

\* articles_data and the number of logger.error calls after one more item
AfterItem(acc, o) ==
    [data |-> IF o.appended THEN Append(acc.data, o.article) ELSE acc.data,
     errors |-> acc.errors + (IF o.logged THEN 1 ELSE 0)]

\* the possible results of the loop over the first n items of doc
RECURSIVE ParseLoop(_, _, _)
ParseLoop(a, doc, n) ==
    IF n = 0 THEN {[data |-> <<>>, errors |-> 0]}
    ELSE {AfterItem(acc, o) : acc \in ParseLoop(a, doc, n - 1),
                              o \in ItemOutcomes(a, doc[n])}

\* parse() after the fetch: find_all, the loop, return articles_data
Parse(a, doc) == ParseLoop(a, doc, Len(doc))

----------------------------------------------------------------------------
(* Documents: an item block is what the selectors of a parser find in it:   *)
(* the text of the title element, the text of the timestamp element and the *)
(* href of the link, each None when the element is absent.                  *)

TitleTexts == {None, <<" ">>, <<" ", "A", " ">>, <<"B">>}

TimestampTexts == {None, <<"t">>}

RelHref == <<"/", "a">>

AbsHref == <<"https", ":", "/", "/", "h", "/", "b">>

Hrefs == {None, RelHref, AbsHref}

ItemSet == [title : TitleTexts, timestamp : TimestampTexts, href : Hrefs]

\* every document of at most MaxItems item blocks
Docs == UNION {[1..n -> ItemSet] : n \in 0..MaxItems}

----------------------------------------------------------------------------
(* The run: initial state of the tasks, of gather and of etl_pipe.main *)

InitRun ==
    /\ pc = [a \in AdapterSet |-> "pending"]
    /\ requests = [a \in AdapterSet |-> 0]
    /\ status = [a \in AdapterSet |-> 0]
    /\ html = [a \in AdapterSet |-> <<>>]
    /\ taskResult = [a \in AdapterSet |-> <<>>]
    /\ errorLog = [a \in AdapterSet |-> 0]
    /\ finished = <<>>
    /\ mainPc = "gather"
    /\ results = <<>>
    /\ etlPc = "await"
    /\ news_data = <<>>

InitIdleParse ==
    /\ ppc = "idle"
    /\ parser = "Kommersant"
    /\ soup = <<>>
    /\ articles = <<>>
    /\ idx = 0
    /\ articles_data = <<>>
    /\ logged = 0

----------------------------------------------------------------------------
(* SpecParse: parse() of one parser on one fetched document, item by item *)

InitParse ==
    /\ InitRun
    /\ ppc = "fetched"
    /\ parser \in AdapterSet
    /\ soup \in Docs
    /\ articles = <<>>
    /\ idx = 0
    /\ articles_data = <<>>
    /\ logged = 0

\* (mutant) a document in which find_all finds nothing makes parse() raise
ParseFindAllRequireItems ==
    /\ ppc = "fetched"
    /\ ppc' = IF Len(soup) = 0 THEN "raised" ELSE "loop"
    /\ articles' = soup
    /\ idx' = 1
    /\ articles_data' = <<>>
    /\ UNCHANGED <<parser, soup, logged>>
    /\ UNCHANGED orchVars

\* articles_data = []; articles = soup.find_all(...)
ParseFindAll ==
    /\ ppc = "fetched"
    /\ ppc' = "loop"
    /\ articles' = soup
    /\ idx' = 1
    /\ articles_data' = <<>>
    /\ UNCHANGED <<parser, soup, logged>>
    /\ UNCHANGED orchVars

\* (mutant) no try/except around the body: the exception ends parse()
ParseItemNoCatch ==
    /\ ppc = "loop"
    /\ idx <= Len(articles)
    /\ \E o \in ItemOutcomes(parser, articles[idx]) :
          LET acc == AfterItem([data |-> articles_data, errors |-> 0], o)
          IN  /\ articles_data' = acc.data
              /\ ppc' = IF o.logged THEN "raised" ELSE ppc
    /\ idx' = idx + 1
    /\ UNCHANGED <<parser, soup, articles, logged>>
    /\ UNCHANGED orchVars

\* one pass of `for article in articles: try: ... except Exception: ...`
ParseItem ==
    /\ ppc = "loop"
    /\ idx <= Len(articles)
    /\ \E o \in ItemOutcomes(parser, articles[idx]) :
          LET acc == AfterItem([data |-> articles_data, errors |-> logged], o)
          IN  /\ articles_data' = acc.data
              /\ logged' = acc.errors
    /\ idx' = idx + 1
    /\ UNCHANGED <<ppc, parser, soup, articles>>
    /\ UNCHANGED orchVars

\* the loop is exhausted: logger.info(...); return articles_data
ParseReturn ==
    /\ ppc = "loop"
    /\ idx > Len(articles)
    /\ ppc' = "returned"
    /\ UNCHANGED <<parser, soup, articles, idx, articles_data, logged>>
    /\ UNCHANGED orchVars

NextParse == ParseFindAll \/ ParseItem \/ ParseReturn

SpecParse == InitParse /\ [][NextParse]_vars

----------------------------------------------------------------------------
(* Spec: the run.  Each parser.run() is a task of asyncio.gather; a task    *)
(* suspends at session.get and at response.text(), and the extraction that  *)
(* follows has no await, so it is one step.                                 *)
(*   pc[a]       where the task of parser a is                              *)
(*   requests[a] the number of session.get calls it has made                *)
(*   status[a]   the status of the response it got (0: none yet)            *)
(*   html[a]     the document it read                                       *)
(*   taskResult  the list its run() returned; errorLog: its logger.error    *)
(*               calls                                                      *)
(*   finished    the parsers in the order their tasks ended                 *)
(*   results     what multi_parser.main returned                            *)
(*   news_data   the contents save_to_json wrote to news_data.json, one     *)
(*               element per call                                           *)

Item(title, timestamp, href) ==
    [title |-> title, timestamp |-> timestamp, href |-> href]

\* the listing pages the sites may serve in a run
ListingDocs ==
    {<<>>,
     <<Item(<<" ", "A", " ">>, <<"t">>, AbsHref), Item(None, <<"t">>, AbsHref),
       Item(<<"B">>, <<"t">>, AbsHref)>>,
     <<Item(<<"B">>, <<"t">>, RelHref), Item(<<" ", "A", " ">>, <<"t">>, RelHref),
       Item(<<"B">>, None, RelHref)>>}

\* the HTTP status codes a site may answer with
StatusCodes == {200, 404}

Running == mainPc = "gather"

(* gather schedules the first step of every task before main suspends, and  *)
(* the event loop runs these steps, each up to its session.get, before it   *)
(* can deliver any response or exception.                                   *)
AllStarted == \A b \in AdapterSet : pc[b] # "pending"

\* the task starts: ClientSession(), parse() calls fetch(), session.get is sent
Start(a) ==
    /\ Running
    /\ pc[a] = "pending"
    /\ pc' = [pc EXCEPT ![a] = "fetching"]
    /\ requests' = [requests EXCEPT ![a] = @ + 1]
    /\ UNCHANGED <<status, html, taskResult, errorLog, finished,
                   mainPc, results, etlPc, news_data>>
    /\ UNCHANGED parseVars

\* session.get returns a response, whatever its status; response.text() awaits
FetchResponse(a) ==
    /\ Running
    /\ AllStarted
    /\ pc[a] = "fetching"
    /\ \E st \in StatusCodes : status' = [status EXCEPT ![a] = st]
    /\ pc' = [pc EXCEPT ![a] = "reading"]
    /\ UNCHANGED <<requests, html, taskResult, errorLog, finished,
                   mainPc, results, etlPc, news_data>>
    /\ UNCHANGED parseVars

\* (mutant) the parsers append to one list they all share: the list a task
\* returns starts with what the task that ended before it had put there
FetchTextSharedList(a) ==
    /\ Running
    /\ pc[a] = "reading"
    /\ \E doc \in ListingDocs : \E r \in Parse(a, doc) :
          LET shared == IF finished = <<>> THEN <<>>
                        ELSE taskResult[finished[Len(finished)]]
          IN  /\ html' = [html EXCEPT ![a] = doc]
              /\ taskResult' = [taskResult EXCEPT ![a] = shared \o r.data]
              /\ errorLog' = [errorLog EXCEPT ![a] = r.errors]
    /\ pc' = [pc EXCEPT ![a] = "done"]
    /\ finished' = Append(finished, a)
    /\ UNCHANGED <<requests, status, mainPc, results, etlPc, news_data>>
    /\ UNCHANGED parseVars

\* the body arrives; parse() extracts the articles and run() returns them
FetchText(a) ==
    /\ Running
    /\ pc[a] = "reading"
    /\ \E doc \in ListingDocs : \E r \in Parse(a, doc) :
          /\ html' = [html EXCEPT ![a] = doc]
          /\ taskResult' = [taskResult EXCEPT ![a] = r.data]
          /\ errorLog' = [errorLog EXCEPT ![a] = r.errors]
    /\ pc' = [pc EXCEPT ![a] = "done"]
    /\ finished' = Append(finished, a)
    /\ UNCHANGED <<requests, status, mainPc, results, etlPc, news_data>>
    /\ UNCHANGED parseVars

\* (mutant) a fetch that raised is tried once more before the task fails
FetchRaiseRetry(a) ==
    /\ Running
    /\ AllStarted
    /\ pc[a] \in {"fetching", "reading"}
    /\ IF requests[a] < 2
       THEN /\ pc' = [pc EXCEPT ![a] = "fetching"]
            /\ requests' = [requests EXCEPT ![a] = @ + 1]
            /\ UNCHANGED finished
       ELSE /\ pc' = [pc EXCEPT ![a] = "failed"]
            /\ finished' = Append(finished, a)
            /\ UNCHANGED requests
    /\ UNCHANGED <<status, html, taskResult, errorLog,
                   mainPc, results, etlPc, news_data>>
    /\ UNCHANGED parseVars

\* session.get or response.text() raises (connection error, timeout, bad
\* payload); nothing in fetch, parse or run catches it, the task fails
FetchRaise(a) ==
    /\ Running
    /\ AllStarted
    /\ pc[a] \in {"fetching", "reading"}
    /\ pc' = [pc EXCEPT ![a] = "failed"]
    /\ finished' = Append(finished, a)
    /\ UNCHANGED <<requests, status, html, taskResult, errorLog,
                   mainPc, results, etlPc, news_data>>
    /\ UNCHANGED parseVars

\* (mutant) main returns as soon as the first task is done
GatherReturnFirstCompleted ==
    /\ Running
    /\ \E a \in AdapterSet : pc[a] = "done"
    /\ results' = [i \in 1..Len(Adapters) |-> taskResult[Adapters[i]]]
    /\ mainPc' = "returned"
    /\ UNCHANGED <<requests, pc, status, html, taskResult, errorLog, finished,
                   etlPc, news_data>>
    /\ UNCHANGED parseVars

\* (mutant) the results are listed in the order the tasks ended
GatherReturnAsCompleted ==
    /\ Running
    /\ \A a \in AdapterSet : pc[a] = "done"
    /\ results' = [i \in 1..Len(finished) |-> taskResult[finished[i]]]
    /\ mainPc' = "returned"
    /\ UNCHANGED <<requests, pc, status, html, taskResult, errorLog, finished,
                   etlPc, news_data>>
    /\ UNCHANGED parseVars

\* asyncio.gather(*tasks): every task is done, the results are listed in the
\* order of the task list; main returns them
GatherReturn ==
    /\ Running
    /\ \A a \in AdapterSet : pc[a] = "done"
    /\ results' = [i \in 1..Len(Adapters) |-> taskResult[Adapters[i]]]
    /\ mainPc' = "returned"
    /\ UNCHANGED <<requests, pc, status, html, taskResult, errorLog, finished,
                   etlPc, news_data>>
    /\ UNCHANGED parseVars

\* asyncio.gather without return_exceptions: the exception of a failed task
\* is raised out of the await, main returns nothing
GatherRaise ==
    /\ Running
    /\ \E a \in AdapterSet : pc[a] = "failed"
    /\ mainPc' = "raised"
    /\ UNCHANGED <<requests, pc, status, html, taskResult, errorLog, finished,
                   results, etlPc, news_data>>
    /\ UNCHANGED parseVars

\* (mutant) a field whose value is None is left out of the dict
DumpSkipNone(article) ==
    [k \in (IF article.timestamp = None THEN {"source", "title", "url"}
            ELSE {"source", "title", "timestamp", "url"}) |-> article[k]]

\* schema.dump(article): the four declared fields, each as its string (the
\* url is the stored form of the HttpUrl), a None timestamp as None
Dump(article) ==
    [source |-> article.source, title |-> article.title,
     timestamp |-> article.timestamp, url |-> article.url]

\* (mutant) each result list is put in front of the ones already flattened
RECURSIVE FlattenReversed(_)
FlattenReversed(rs) ==
    IF rs = <<>> THEN <<>>
    ELSE FlattenReversed(Tail(rs)) \o [i \in 1..Len(Head(rs)) |-> Dump(Head(rs)[i])]

\* for result in results: for article in result: articles_list.append(dump)
RECURSIVE Flatten(_)
Flatten(rs) ==
    IF rs = <<>> THEN <<>>
    ELSE [i \in 1..Len(Head(rs)) |-> Dump(Head(rs)[i])] \o Flatten(Tail(rs))

JsonNull == <<"null">>

\* json.dump of one dict: the same keys, None written as null, a str as it
\* is (source is the parser's name, a str in every dict)
JsonObject(d) ==
    [k \in DOMAIN d |-> IF k # "source" /\ d[k] = None THEN JsonNull ELSE d[k]]

\* json.dump(data, f): the array written to the file, one object per dict
save_to_json(data) == [i \in 1..Len(data) |-> JsonObject(data[i])]

\* etl_pipe.main after `await get_articles()`: flatten and save_to_json
EtlSave ==
    /\ mainPc = "returned"
    /\ etlPc = "await"
    /\ news_data' = Append(news_data, save_to_json(Flatten(results)))
    /\ etlPc' = "saved"
    /\ UNCHANGED <<requests, pc, status, html, taskResult, errorLog, finished,
                   mainPc, results>>
    /\ UNCHANGED parseVars

\* the exception leaves etl_pipe.main before save_to_json; asyncio.run
\* cancels the tasks that are still pending and the process ends
EtlAbort ==
    /\ mainPc = "raised"
    /\ etlPc = "await"
    /\ etlPc' = "aborted"
    /\ pc' = [a \in AdapterSet |->
                IF pc[a] \in {"done", "failed"} THEN pc[a] ELSE "cancelled"]
    /\ UNCHANGED <<requests, status, html, taskResult, errorLog, finished,
                   mainPc, results, news_data>>
    /\ UNCHANGED parseVars

Init == InitRun /\ InitIdleParse

Next ==
    \/ \E a \in AdapterSet : Start(a)
    \/ \E a \in AdapterSet : FetchResponse(a)
    \/ \E a \in AdapterSet : FetchText(a)
    \/ \E a \in AdapterSet : FetchRaise(a)
    \/ GatherReturn
    \/ GatherRaise
    \/ EtlSave
    \/ EtlAbort

Spec == Init /\ [][Next]_vars

----------------------------------------------------------------------------
(* Vocabulary of the properties *)

Range(f) == {f[i] : i \in DOMAIN f}

RunEnded == etlPc \in {"saved", "aborted"}

ParseEnded == ppc \in {"returned", "raised"}

\* the items the loop has already been through
Processed == 1..(idx - 1)

NonBlank(text) == text # None /\ Strip(text) # <<>>

\* an absolute http(s) URL: scheme, "://" and a host
AbsoluteHttp(u) ==
    /\ Len(u) >= 5
    /\ u[1] \in {"http", "https"}
    /\ <<u[2], u[3], u[4]>> = <<":", "/", "/">>
    /\ u[5] \notin {":", "/"}

\* the URL a parser makes of an href: Kommersant and IXBT put their origin
\* in front, RBC and RIA take the href as it is
ResolvedUrl(a, href) ==
    CASE a = "Kommersant" -> KommersantBase \o href
      [] a = "IXBT" -> IXBTBase \o href
      [] OTHER -> href

\* the forms in which validation stores a URL it accepts
StoredForms(u) == {v.url : v \in {w \in HttpUrlVerdicts(u) : w.ok}}

\* the link of the item resolves to a URL that validation always accepts
ValidLink(a, item) ==
    /\ item.href # None
    /\ \A v \in HttpUrlVerdicts(ResolvedUrl(a, item.href)) : v.ok

\* the Records an item with a title and a link stands for
RecordsOf(a, item) ==
    {Article(a, Strip(item.title),
             IF item.timestamp = None THEN None ELSE Strip(item.timestamp),
             url) : url \in StoredForms(ResolvedUrl(a, item.href))}

WellFormed(a, item) ==
    NonBlank(item.title) /\ NonBlank(item.timestamp) /\ ValidLink(a, item)

\* processing the item raises inside the loop body
Faulty(a, item) == Raised \in ItemOutcomes(a, item)

----------------------------------------------------------------------------
(* C1: a failed fetch of one parser is that parser's own outcome: once the  *)
(* orchestrator is through, no other parser's task has been cancelled and   *)
(* the records of every parser that completed are in the collected results  *)
(* at its position.                                                         *)
C1_FailureIsolation ==
    mainPc # "gather" =>
        \A b \in AdapterSet :
            /\ pc[b] # "cancelled"
            /\ pc[b] = "done" =>
                  /\ Len(results) = Len(Adapters)
                  /\ results[Pos(b)] = taskResult[b]

(* C2: every run that ends has written the output file, whichever parsers   *)
(* failed: save_to_json was called once with the records of the parsers     *)
(* that succeeded.                                                          *)
C2_OutputAlwaysWritten ==
    RunEnded =>
        /\ etlPc = "saved"
        /\ Len(news_data) = 1

(* C3: what the orchestrator returns has one outcome per registered parser  *)
(* and the outcome at position i is the one of the i-th registered parser,  *)
(* in whatever order the fetches completed.                                 *)
C3_RegistrationOrder ==
    mainPc = "returned" =>
        /\ Len(results) = Len(Adapters)
        /\ \A i \in 1..Len(Adapters) :
              /\ results[i] = taskResult[Adapters[i]]
              /\ \E r \in Parse(Adapters[i], html[Adapters[i]]) : results[i] = r.data

\* the orchestrator returned although the tasks ended in another order than
\* they were registered, and the outcomes differ from one another
C3_Witness ==
    /\ mainPc = "returned"
    /\ finished # Adapters
    /\ Len(finished) = Len(Adapters)
    /\ finished[1] = "RIA"
    /\ \A i, j \in 1..Len(Adapters) : i # j => results[i] # results[j]

(* C4: a fault raised while processing one item never escapes parse(): the  *)
(* loop goes through every item, and when parse() has ended every           *)
(* well-formed item that comes after a faulty one has its record in the     *)
(* returned list.                                                           *)
C4_PerItemIsolation ==
    /\ ppc # "raised"
    /\ ParseEnded =>
          /\ idx = Len(soup) + 1
          /\ \A i, j \in 1..Len(soup) :
                (i < j /\ Faulty(parser, soup[i]) /\ WellFormed(parser, soup[j]))
                    => RecordsOf(parser, soup[j]) \cap Range(articles_data) # {}

\* parse() returned from a document whose first item raised (and was logged)
\* and whose later well-formed item was extracted
C4_Witness ==
    /\ ppc = "returned"
    /\ logged >= 1
    /\ \E i, j \in 1..Len(soup) :
          /\ i < j
          /\ ItemOutcomes(parser, soup[i]) = {Raised}
          /\ WellFormed(parser, soup[j])
          /\ RecordsOf(parser, soup[j]) \cap Range(articles_data) # {}

(* C5: for every parser, an item with a non-empty title and a valid link    *)
(* but no timestamp element yields a Record with a null timestamp.          *)
C5_AbsentTimestampKept ==
    ppc = "returned" =>
        \A i \in 1..Len(soup) :
            (NonBlank(soup[i].title) /\ ValidLink(parser, soup[i])
                /\ soup[i].timestamp = None)
                => \E r \in RecordsOf(parser, soup[i]) :
                      r.timestamp = None /\ r \in Range(articles_data)

(* C6: every Record a parser has extracted has a title that is non-empty    *)
(* after stripping.                                                         *)
C6_TitleNonEmpty ==
    \A k \in 1..Len(articles_data) :
        /\ articles_data[k].title # None
        /\ Strip(articles_data[k].title) # <<>>

(* C7: every Record a parser has extracted has an absolute http(s) URL,     *)
(* which is the validated link of an item it went through, resolved         *)
(* against the origin for Kommersant and IXBT and unchanged for RBC and     *)
(* RIA; items with no link, or with a relative href for RBC and RIA, give   *)
(* no Record.                                                               *)
C7_UrlAbsolute ==
    /\ \A k \in 1..Len(articles_data) :
          /\ AbsoluteHttp(articles_data[k].url)
          /\ \E i \in Processed :
                /\ soup[i].href # None
                /\ articles_data[k].url
                      \in StoredForms(ResolvedUrl(parser, soup[i].href))
    /\ Len(articles_data) <=
          Cardinality({i \in Processed :
                          /\ soup[i].href # None
                          /\ AbsoluteHttp(ResolvedUrl(parser, soup[i].href))})

\* RBC or RIA returned after an item with a relative href and an item with
\* no link were dropped, and Kommersant or IXBT returned a Record whose URL
\* is the origin followed by the relative href
C7_Witness ==
    /\ ppc = "returned"
    /\ \/ /\ parser \in {"RBC", "RIA"}
          /\ Len(soup) = 3
          /\ soup[1].href = RelHref /\ NonBlank(soup[1].title)
          /\ NonBlank(soup[1].timestamp)
          /\ soup[2].href = None
          /\ WellFormed(parser, soup[3])
          /\ Len(articles_data) = 1
       \/ /\ parser \in {"Kommersant", "IXBT"}
          /\ Len(soup) = 3
          /\ soup[1].href = RelHref /\ NonBlank(soup[1].title)
          /\ NonBlank(soup[1].timestamp)
          /\ soup[2].href = None
          /\ soup[3].href = None
          /\ Len(articles_data) = 1
          /\ articles_data[1].url \in {KommersantBase \o RelHref, IXBTBase \o RelHref}

(* C8: every item a parser drops is reported: when parse() returns from a   *)
(* document of N items with K records, N-K drops have been logged.          *)
C8_DropsTraced ==
    ppc = "returned" => logged = Len(soup) - Len(articles_data)

\* the records in data are records of items, one item each, in the order of
\* the items
RECURSIVE InDocumentOrder(_, _, _)
InDocumentOrder(a, data, items) ==
    IF data = <<>> THEN TRUE
    ELSE IF items = <<>> THEN FALSE
    ELSE \/ InDocumentOrder(a, data, Tail(items))
         \/ /\ Head(items).title # None
            /\ Head(items).href # None
            /\ Head(data) \in RecordsOf(a, Head(items))
            /\ InDocumentOrder(a, Tail(data), Tail(items))

(* C9: the list a parser builds follows document order: each item it went   *)
(* through gives at most one Record and the Records are in the order of     *)
(* their items, also when items in between were dropped.                    *)
C9_DocumentOrder ==
    ppc \in {"loop", "returned"} =>
        InDocumentOrder(parser, articles_data, SubSeq(soup, 1, idx - 1))

\* parse() returned two different Records, of the first and of the third
\* item, the second item having been dropped
C9_Witness ==
    /\ ppc = "returned"
    /\ Len(soup) = 3
    /\ Len(articles_data) = 2
    /\ articles_data[1] # articles_data[2]
    /\ soup[1].title # None /\ soup[1].href # None
    /\ soup[3].title # None /\ soup[3].href # None
    /\ articles_data[1] \in RecordsOf(parser, soup[1])
    /\ articles_data[2] \in RecordsOf(parser, soup[3])
    /\ ~WellFormed(parser, soup[2])

\* the number of records of the parsers registered before position i
RECURSIVE Offset(_)
Offset(i) == IF i = 1 THEN 0 ELSE Offset(i - 1) + Len(taskResult[Adapters[i - 1]])

(* C10: the written list is the concatenation of the parsers' record lists  *)
(* in registration order, each in its own order: its length is the sum of   *)
(* their lengths and the j-th record of the i-th parser is at position      *)
(* Offset(i) + j.                                                           *)
C10_Concatenation ==
    etlPc = "saved" =>
        LET out == news_data[Len(news_data)]
        IN  /\ Len(out) = Offset(Len(Adapters) + 1)
            /\ \A i \in 1..Len(Adapters) :
                  \A j \in 1..Len(taskResult[Adapters[i]]) :
                      out[Offset(i) + j] = JsonObject(Dump(taskResult[Adapters[i]][j]))

\* the file was written with two records of each of two parsers although
\* the last registered parser ended first
C10_Witness ==
    /\ etlPc = "saved"
    /\ finished[1] = "RIA"
    /\ Len(taskResult["RBC"]) = 2
    /\ Len(taskResult["IXBT"]) = 2
    /\ taskResult["IXBT"][1] # taskResult["IXBT"][2]
    /\ Len(news_data[1]) >= 4

(* C11: a response with a non-2xx status is a failure of that parser's      *)
(* fetch: no task ends successfully, with or without records, on a document *)
(* that came with such a status.                                            *)
C11_Non2xxIsFailure ==
    \A a \in AdapterSet : pc[a] = "done" => status[a] \in 200..299

(* C12: a source that hangs does not block the others: when the fetch of    *)
(* one parser has ended in a failure (its timeout) and every other parser   *)
(* has completed, the run that ends has collected the others' results and   *)
(* written the output with their records.                                   *)
C12_HungSourceDoesNotBlock ==
    \A a \in AdapterSet :
        (/\ pc[a] = "failed"
         /\ \A b \in AdapterSet \ {a} : pc[b] = "done"
         /\ RunEnded)
            => /\ etlPc = "saved"
               /\ Len(news_data) = 1
               /\ \A b \in AdapterSet \ {a} :
                     Len(news_data[1]) >= Len(taskResult[b])

(* C13: for every parser, parse() of a document with no matching item      *)
(* does not raise: it goes through find_all and the empty loop and returns  *)
(* an empty list, with nothing logged as an error.                          *)
C13_EmptyDocument ==
    Len(soup) = 0 =>
        /\ ppc \in {"fetched", "loop", "returned"}
        /\ ppc # "fetched" => (articles_data = <<>> /\ logged = 0)

\* the RIA parser returned from a document without items
C13_Witness ==
    /\ ppc = "returned"
    /\ parser = "RIA"
    /\ Len(soup) = 0
    /\ articles_data = <<>>

(* C14: the written array has one object per aggregated record, in the     *)
(* same order, each with exactly the keys source, title, timestamp and url  *)
(* holding the record's values; a record without timestamp is written with  *)
(* timestamp null, the key is never left out.                               *)
C14_SerializationKeepsFields ==
    etlPc = "saved" =>
        LET out == news_data[Len(news_data)]
        IN  /\ Len(out) = Offset(Len(Adapters) + 1)
            /\ \A i \in 1..Len(Adapters) :
                  \A j \in 1..Len(results[i]) :
                      LET rec == results[i][j]
                          obj == out[Offset(i) + j]
                      IN  /\ DOMAIN obj = {"source", "title", "timestamp", "url"}
                          /\ obj.source = rec.source
                          /\ obj.title = rec.title
                          /\ obj.url = rec.url
                          /\ obj.timestamp = IF rec.timestamp = None THEN JsonNull
                                             ELSE rec.timestamp

\* the file was written with a record of Kommersant that has no timestamp,
\* next to records that have one
C14_Witness ==
    /\ etlPc = "saved"
    /\ \E k \in 1..Len(news_data[1]) :
          /\ news_data[1][k].source = "Kommersant"
          /\ news_data[1][k].timestamp = JsonNull
    /\ \E k \in 1..Len(news_data[1]) : news_data[1][k].timestamp = <<"t">>

\* the number of session.get calls of the first n registered parsers
RECURSIVE RequestsOf(_)
RequestsOf(n) == IF n = 0 THEN 0 ELSE RequestsOf(n - 1) + requests[Adapters[n]]

(* C15: each parser makes exactly one request: none before its task has     *)
(* started, one from then on whether its fetch succeeds or fails, never a   *)
(* second one; in a run that has ended the requests total the number of     *)
(* registered parsers.                                                      *)
C15_OneRequestPerAdapter ==
    /\ \A a \in AdapterSet :
          requests[a] = IF pc[a] = "pending" THEN 0 ELSE 1
    /\ RunEnded => RequestsOf(Len(Adapters)) = Len(Adapters)

\* a run has ended in which one fetch failed and another succeeded, with
\* four requests made
C15_Witness ==
    /\ RunEnded
    /\ \E a, b \in AdapterSet : pc[a] = "failed" /\ pc[b] = "done"
    /\ RequestsOf(Len(Adapters)) = 4

(* C16: the tasks share no mutable state: in every state of every          *)
(* interleaving, the list a completed parser returned is a list parse()     *)
(* gives for its own document alone, with the error count of that parse,    *)
(* and a parser that has not completed has returned nothing; no step of     *)
(* another task adds to it or changes it.                                   *)
C16_NoSharedState ==
    \A a \in AdapterSet :
        IF pc[a] = "done"
        THEN \E r \in Parse(a, html[a]) :
                taskResult[a] = r.data /\ errorLog[a] = r.errors
        ELSE taskResult[a] = <<>> /\ errorLog[a] = 0

\* RBC ended first with two records, Kommersant ended after it with three,
\* and RIA is still reading its response
C16_Witness ==
    /\ Len(finished) >= 2
    /\ finished[1] = "RBC"
    /\ pc["RBC"] = "done" /\ Len(taskResult["RBC"]) = 2
    /\ pc["Kommersant"] = "done" /\ Len(taskResult["Kommersant"]) = 3
    /\ pc["RIA"] = "reading"

(* C17: the results are combined and written only after every task has     *)
(* completed: main has returned and the file has been written only in       *)
(* states where no parser is still running, and save_to_json is called at   *)
(* most once in a run.                                                      *)
C17_WrittenAfterAllComplete ==
    /\ Len(news_data) <= 1
    /\ (mainPc = "returned" \/ Len(news_data) > 0) =>
          \A a \in AdapterSet : pc[a] = "done"
    /\ Len(news_data) > 0 => (mainPc = "returned" /\ etlPc = "saved")

\* the file has been written once, with records, after the four tasks ended
\* in another order than they were registered
C17_Witness ==
    /\ etlPc = "saved"
    /\ Len(news_data) = 1
    /\ Len(news_data[1]) > 0
    /\ Len(finished) = Len(Adapters)
    /\ finished[1] = "IXBT"

(* C18: every record carries the name of the parser that produced it: the  *)
(* records a parser returned, and so the records of the outcome at position *)
(* i, have the non-empty source Adapters[i]; in the written array the       *)
(* sources appear in registration order, those of one source side by side.  *)
C18_SourceOfAdapter ==
    /\ \A a \in AdapterSet : \A k \in 1..Len(taskResult[a]) :
          taskResult[a][k].source = a /\ a # ""
    /\ mainPc = "returned" =>
          \A i \in 1..Len(results) : \A k \in 1..Len(results[i]) :
              results[i][k].source = Adapters[i]
    /\ etlPc = "saved" =>
          LET out == news_data[Len(news_data)]
          IN  \A j, k \in 1..Len(out) :
                  j < k => Pos(out[j].source) <= Pos(out[k].source)

\* the file was written with records of all four sources
C18_Witness ==
    /\ etlPc = "saved"
    /\ \A a \in AdapterSet :
          \E k \in 1..Len(news_data[1]) : news_data[1][k].source = a

============================================================================
